---------------------------- MODULE Spec2Model ----------------------------
(***************************************************************************)
(* A model of researchgate-hub: the metadata ingestion pipeline            *)
(* (publications_metadata.py), and the node extractors of publications.py  *)
(* and citations.py.                                                       *)
(*                                                                         *)
(* Three specifications share the module:                                  *)
(*   SpecFetch   one call of fetch_and_extract_metadata, with the retry    *)
(*               loop of handle_request taken one step at a time;          *)
(*   Spec        one run of process_publication_metadata: the worklist,    *)
(*               the batches, the worker threads of each batch's pool and  *)
(*               the writes to the output file;                            *)
(*   SpecExtract the extractors applied to decoded JSON documents.         *)
(*                                                                         *)
(* Decoded JSON is modelled as tagged values: [t |-> "null"], a string     *)
(* [t |-> "str", s |-> ...], a list [t |-> "list", xs |-> ...] and a dict  *)
(* [t |-> "dict", ks |-> keys, vs |-> values], whose keys keep their       *)
(* insertion order as Python's dicts do.  A dict key is a sequence of      *)
(* tokens, cut where the code's startswith tests cut it, so that a prefix  *)
(* test is a test on a prefix of the sequence.                             *)
(***************************************************************************)
EXTENDS Integers, Sequences, FiniteSets, TLC

VARIABLES
    \* ---- one call of fetch_and_extract_metadata (SpecFetch)
    fa_pc,        \* "idle", "start", "hr_loop", "hr_got", "hr_return", "done"
    fa_row,       \* the row given to the worker
    fa_body,      \* the body the upstream will answer a 200 with
    hr_attempt,   \* handle_request: the loop variable `attempt`
    hr_delay,     \* handle_request: the local `delay`
    hr_last,      \* handle_request: outcome of the GET just issued
    hr_outcomes,  \* history: outcome of every GET issued, in order
    hr_slept,     \* history: every delay given to time.sleep, in order
    hr_ret,       \* handle_request's return value
    fa_ret        \* fetch_and_extract_metadata's return value (or Raised)

fetchVars == <<fa_pc, fa_row, fa_body, hr_attempt, hr_delay, hr_last,
               hr_outcomes, hr_slept, hr_ret, fa_ret>>

VARIABLES
    \* ---- one run of process_publication_metadata (Spec)
    run_pc,         \* "idle", "start", "dispatch", "collect", "unwind", "join",
                    \* "save", "done", "aborted", "no_input"
    input_exists,   \* the input CSV exists
    input_rows,     \* its rows, in file order
    out_file,       \* the output CSV: [exists, readable, header, rows]
    out0,           \* history: the output CSV as the run found it
    run_diff,       \* parameter run_diff
    batch_size,     \* parameter batch_size
    num_workers,    \* parameter num_workers
    publications,   \* the worklist
    bi,             \* the loop variable i (0-based start of the batch)
    is_first_batch, \* the flag is_first_batch
    tasks,          \* per worklist row: the future of its fetch
    coll,           \* how many results of the batch the main thread has taken
    meta,           \* current_batch_metadata
    completed,      \* history: worklist indexes in the order their fetch ended
    batches,        \* history: every batch dispatched, in order
    writes          \* history: every write to the output, in order

runVars == <<run_pc, input_exists, input_rows, out_file, out0, run_diff,
             batch_size, num_workers, publications, bi, is_first_batch,
             tasks, coll, meta, completed, batches, writes>>

VARIABLES
    \* ---- the extractors applied to one decoded document (SpecExtract)
    ex_pc,   \* "idle", "ready", "done"
    ex_doc,  \* the decoded document
    ex_op,   \* the extractor that was applied
    ex_arg,  \* the identifier and topic it was given, where it takes them
    ex_out   \* what it returned: a list of records, or Raised

exVars == <<ex_pc, ex_doc, ex_op, ex_arg, ex_out>>

VARIABLES
    \* ---- one run of process_citations_for_publications (Spec)
    ct_pc,            \* "idle", "start", "loop", "done", "no_input", "raised"
    pubs_csv,         \* publications_raw.csv as the run finds it: [exists, rows]
    ct_row,           \* position of the for loop over the rows (1-based)
    ct_requests,      \* history: number of requests.get calls issued
    all_edges,        \* the local all_edges
    all_citing_pubs,  \* the local all_citing_pubs
    edges_csv,        \* citations_edges.csv: [exists, rows]
    citing_pubs_csv,  \* citations_publications.csv: [exists, rows]
    ct_out0           \* history: the two output files as the run found them

ctVars == <<ct_pc, pubs_csv, ct_row, ct_requests, all_edges, all_citing_pubs,
            edges_csv, citing_pubs_csv, ct_out0>>

VARIABLES
    \* ---- calls of export_raw_publications, one after another (Spec, SpecExport)
    xp_pc,       \* "idle", "ready", or how the last call ended:
                 \* "done", "no_input", "raised"
    json_files,  \* the saved JSON files: name -> decoded content, or Absent
    raw_csv,     \* publications_raw.csv: [exists, rows], rows of cells
    raw_csv0,    \* history: the file as the last call found it
    xp_calls     \* history: [topic, source_file, new_rows] of every call

xpVars == <<xp_pc, json_files, raw_csv, raw_csv0, xp_calls>>

vars == <<fetchVars, runVars, exVars, ctVars, xpVars>>

-----------------------------------------------------------------------------
(* Program constants *)

MAX_RETRIES == 3

INITIAL_RETRY_DELAY == 3

BASE_URL == "https://www.researchgate.net"

-----------------------------------------------------------------------------
(* Python values *)

PyNone == [t |-> "null"]

\* An exception leaving the function that is being evaluated.
Raised == [t |-> "raise"]

JStr(s) == [t |-> "str", s |-> s]

JList(xs) == [t |-> "list", xs |-> xs]

JDict(ks, vs) == [t |-> "dict", ks |-> ks, vs |-> vs]

EmptyDict == JDict(<<>>, <<>>)

\* A key left out of a document under construction.
Absent == [t |-> "absent"]

\* A key that is one token.
Key(s) == <<s>>

IsDict(v) == v.t = "dict"

\* Python's truth value of an object.
Truthy(v) ==
    CASE v.t = "null" -> FALSE
      [] v.t = "str"  -> v.s # ""
      [] v.t = "list" -> v.xs # <<>>
      [] v.t = "dict" -> v.ks # <<>>
      [] OTHER        -> TRUE

HasKey(d, k) == \E i \in 1..Len(d.ks) : d.ks[i] = k

Lookup(d, k) == d.vs[CHOOSE i \in 1..Len(d.ks) : d.ks[i] = k]

\* o.get(k, dflt): an AttributeError when o is not a dict; an exception
\* raised while computing o propagates.
PyGet(o, k, dflt) ==
    IF o.t = "raise" THEN Raised
    ELSE IF ~IsDict(o) THEN Raised
    ELSE IF HasKey(o, k) THEN Lookup(o, k)
    ELSE dflt

\* s.startswith(p) on token sequences.
StartsWith(s, p) == Len(s) >= Len(p) /\ SubSeq(s, 1, Len(p)) = p

\* data.get("result", {}).get("state", {}).get("rigel", {}).get("store", {})
RigelStore(data) ==
    PyGet(PyGet(PyGet(PyGet(data, Key("result"), EmptyDict),
                      Key("state"), EmptyDict),
                Key("rigel"), EmptyDict),
          Key("store"), EmptyDict)


-----------------------------------------------------------------------------
(* Identifiers, keys and documents of the bounded universe *)

Ids == {"PB:1", "PB:2"}

\* pub_id.split(":")[-1] on the identifiers of the universe; a string without
\* a colon is its own last piece.
NumericId(pub_id) ==
    CASE pub_id = "PB:1" -> "1"
      [] pub_id = "PB:2" -> "2"
      [] OTHER           -> pub_id

Q == "\""

\* The store key  publication(id:"<id>")  as tokens.
PubKey(id) == <<"publication(", "id:", Q, id, Q, ")">>

\* The store key  author(id:"<id>")  as tokens.
AuthorKey(id) == <<"author(", "id:", Q, id, Q, ")">>

\* A node object {"id": id, "__typename": ty}; PyNone for id or ty is an
\* explicit null, Absent leaves the key out.
Node(id, ty) ==
    LET ids == IF id.t = "absent" THEN <<>> ELSE << <<Key("id"), id>> >>
        tys == IF ty.t = "absent" THEN <<>> ELSE << <<Key("__typename"), ty>> >>
        kv  == ids \o tys
    IN  JDict([i \in 1..Len(kv) |-> kv[i][1]], [i \in 1..Len(kv) |-> kv[i][2]])

\* A store value that is a list of paginated sub-objects, not a node.
PageList == JList(<<EmptyDict>>)

\* {"result": {"state": {"rigel": {"store": store}}}}
RigelDoc(store) ==
    JDict(<<Key("result")>>, <<
      JDict(<<Key("state")>>, <<
        JDict(<<Key("rigel")>>, <<
          JDict(<<Key("store")>>, <<store>>) >>) >>) >>)

-----------------------------------------------------------------------------
(* publications_metadata.py: the parser and the fetch worker *)

RECURSIVE FindTarget(_, _, _)
\* The loop of extract_publication_metadata from entry i on: the first value
\* whose "id" equals pub_id, PyNone when there is none, Raised when a value
\* met on the way has no .get (the isinstance test comes after the call).
FindTarget(store, pub_id, i) ==
    IF i > Len(store.ks) THEN PyNone
    ELSE LET val == store.vs[i]
             got == PyGet(val, Key("id"), PyNone)
         IN  IF got.t = "raise" THEN Raised
             ELSE IF got = JStr(pub_id) /\ IsDict(val) THEN val
             ELSE FindTarget(store, pub_id, i + 1)

extract_publication_metadata(store, pub_id) ==
    IF ~IsDict(store) THEN Raised          \* store.items()
    ELSE LET target_data == FindTarget(store, pub_id, 1)
         IN  IF target_data.t = "raise" THEN Raised
             ELSE IF ~Truthy(target_data) THEN PyNone
             ELSE [t              |-> "rec",
                   publication_id |-> JStr(pub_id),
                   url            |-> <<BASE_URL, "/publication/", NumericId(pub_id)>>,
                   type           |-> PyGet(target_data, Key("type"), PyNone),
                   abstract       |-> PyGet(target_data, Key("abstract"), PyNone)]

\* fetch_and_extract_metadata from the markup test on, given the response
\* handle_request returned.  body.html: the text holds "<html>";
\* body.decodes: resp.json() succeeds, and then yields body.data.
FetchTail(pub_id, body) ==
    IF body.html THEN PyNone
    ELSE IF ~body.decodes THEN PyNone
    ELSE LET store    == RigelStore(body.data)
             metadata == IF store.t = "raise" THEN Raised
                         ELSE extract_publication_metadata(store, pub_id)
         IN  IF metadata.t = "raise" THEN Raised
             ELSE IF Truthy(metadata) THEN metadata
             ELSE PyNone

-----------------------------------------------------------------------------
(* handle_request and fetch_and_extract_metadata, step by step *)

\* What one requests.get can do: answer with a status, raise a
\* requests.exceptions.RequestException (a transport failure), or raise
\* anything else.
Statuses == {200, 429, 403, 404, 500}

GetOutcomes ==
    [kind : {"status"}, code : Statuses]
      \cup {[kind |-> "reqexc", code |-> 0], [kind |-> "exc", code |-> 0]}

NoOutcome == [kind |-> "none", code |-> 0]

\* Mutant: a 5xx answer is retried like a rate limit.
IsRateLimitedOr5xx(code) == code = 429 \/ code >= 500

\* resp.status_code == 429
IsRateLimited(code) == code = 429

\* resp.status_code != 200
IsNotOk(code) == code # 200

\* Mutant: linear backoff.
DelayLinear(delay) == delay + INITIAL_RETRY_DELAY

\* delay *= 2 after a rate-limited response
DelayAfterRateLimit(delay) == delay * 2

\* Mutant: the delay is not doubled on this path.
DelayKept(delay) == delay

\* delay *= 2 after a transport failure
DelayAfterTransportFailure(delay) == delay * 2

\* attempt < MAX_RETRIES - 1
MayRetryTransport(attempt) == attempt < MAX_RETRIES - 1

\* The rows a worker can be given: the publication_id cell is missing
\* (None), empty, or an identifier.
FetchRows == {[publication_id |-> v] : v \in {PyNone, JStr("")} \cup {JStr(i) : i \in Ids}}

\* The values a "id" or "__typename" key can be given in a document.
NodeIdValues == {Absent, PyNone} \cup {JStr(i) : i \in Ids}

MetaStoreValues ==
    {Node(id, JStr("Publication")) : id \in NodeIdValues} \cup {PageList}

\* The stores of at most MaxStoreEntries entries, keys distinct.
MaxStoreEntries == 2

StoreKeys == {PubKey(i) : i \in Ids}

RECURSIVE StoresOfLen(_, _, _)
StoresOfLen(n, keys, values) ==
    IF n = 0 THEN {EmptyDict}
    ELSE {JDict(<<x[1]>> \o x[3].ks, <<x[2]>> \o x[3].vs) :
            x \in {y \in keys \X values \X StoresOfLen(n - 1, keys, values) :
                     ~HasKey(y[3], y[1])}}

MetaStores ==
    UNION {StoresOfLen(n, StoreKeys, MetaStoreValues) : n \in 0..MaxStoreEntries}

\* The decoded documents an upstream 200 can carry.
MetaDocs ==
    {RigelDoc(s) : s \in MetaStores}
      \cup {EmptyDict,                                     \* no "result"
            JList(<<>>),                                   \* not an object
            JDict(<<Key("result")>>, <<PyNone>>),          \* "result": null
            RigelDoc(PyNone),                              \* "store": null
            RigelDoc(JList(<<>>))}                         \* "store": []

FetchBodies ==
    {[html |-> FALSE, decodes |-> TRUE, data |-> d] : d \in MetaDocs}
      \cup {[html |-> TRUE,  decodes |-> FALSE, data |-> PyNone],
            [html |-> TRUE,  decodes |-> TRUE,  data |-> RigelDoc(EmptyDict)],
            [html |-> FALSE, decodes |-> FALSE, data |-> PyNone]}

NoBody == [html |-> FALSE, decodes |-> FALSE, data |-> PyNone]

FetchIdle ==
    /\ fa_pc = "idle"
    /\ fa_row = [publication_id |-> PyNone]
    /\ fa_body = NoBody
    /\ hr_attempt = 0
    /\ hr_delay = 0
    /\ hr_last = NoOutcome
    /\ hr_outcomes = <<>>
    /\ hr_slept = <<>>
    /\ hr_ret = "unset"
    /\ fa_ret = [t |-> "unset"]

InitFetch ==
    /\ fa_pc = "start"
    /\ fa_row \in FetchRows
    /\ fa_body \in FetchBodies
    /\ hr_attempt = 0
    /\ hr_delay = 0
    /\ hr_last = NoOutcome
    /\ hr_outcomes = <<>>
    /\ hr_slept = <<>>
    /\ hr_ret = "unset"
    /\ fa_ret = [t |-> "unset"]

\* fetch_and_extract_metadata up to the call of handle_request, and
\* handle_request up to its loop.
FaEnter ==
    /\ fa_pc = "start"
    /\ IF ~Truthy(fa_row.publication_id)
       THEN /\ fa_ret' = PyNone
            /\ fa_pc' = "done"
            /\ UNCHANGED hr_delay
       ELSE /\ hr_delay' = INITIAL_RETRY_DELAY
            /\ fa_pc' = "hr_loop"
            /\ UNCHANGED fa_ret
    /\ UNCHANGED <<runVars, exVars, ctVars, xpVars, fa_row, fa_body, hr_attempt, hr_last, hr_outcomes, hr_slept, hr_ret>>

\* requests.get(url, headers=headers, timeout=15)
HrGet(o) ==
    /\ fa_pc = "hr_loop"
    /\ hr_attempt < MAX_RETRIES
    /\ hr_last' = o
    /\ hr_outcomes' = Append(hr_outcomes, o)
    /\ fa_pc' = "hr_got"
    /\ UNCHANGED <<runVars, exVars, ctVars, xpVars, fa_row, fa_body, hr_attempt, hr_delay, hr_slept, hr_ret, fa_ret>>

\* status 429: sleep(delay), double it, continue
HrRateLimited ==
    /\ fa_pc = "hr_got"
    /\ hr_last.kind = "status" /\ IsRateLimited(hr_last.code)
    /\ hr_slept' = Append(hr_slept, hr_delay)
    /\ hr_delay' = DelayAfterRateLimit(hr_delay)
    /\ hr_attempt' = hr_attempt + 1
    /\ fa_pc' = "hr_loop"
    /\ UNCHANGED <<runVars, exVars, ctVars, xpVars, fa_row, fa_body, hr_last, hr_outcomes, hr_ret, fa_ret>>

\* any other status that is not 200: return None
HrFatalStatus ==
    /\ fa_pc = "hr_got"
    /\ hr_last.kind = "status" /\ ~IsRateLimited(hr_last.code) /\ IsNotOk(hr_last.code)
    /\ hr_ret' = "None"
    /\ fa_pc' = "hr_return"
    /\ UNCHANGED <<runVars, exVars, ctVars, xpVars, fa_row, fa_body, hr_attempt, hr_delay, hr_last, hr_outcomes, hr_slept, fa_ret>>

\* status 200: return resp
HrSuccess ==
    /\ fa_pc = "hr_got"
    /\ hr_last.kind = "status" /\ ~IsRateLimited(hr_last.code) /\ ~IsNotOk(hr_last.code)
    /\ hr_ret' = "resp"
    /\ fa_pc' = "hr_return"
    /\ UNCHANGED <<runVars, exVars, ctVars, xpVars, fa_row, fa_body, hr_attempt, hr_delay, hr_last, hr_outcomes, hr_slept, fa_ret>>

\* RequestException with attempts left: sleep(delay), double it, next attempt
HrTransportRetry ==
    /\ fa_pc = "hr_got"
    /\ hr_last.kind = "reqexc"
    /\ MayRetryTransport(hr_attempt)
    /\ hr_slept' = Append(hr_slept, hr_delay)
    /\ hr_delay' = DelayAfterTransportFailure(hr_delay)
    /\ hr_attempt' = hr_attempt + 1
    /\ fa_pc' = "hr_loop"
    /\ UNCHANGED <<runVars, exVars, ctVars, xpVars, fa_row, fa_body, hr_last, hr_outcomes, hr_ret, fa_ret>>

\* RequestException on the last attempt: return None
HrTransportGiveUp ==
    /\ fa_pc = "hr_got"
    /\ hr_last.kind = "reqexc"
    /\ ~MayRetryTransport(hr_attempt)
    /\ hr_ret' = "None"
    /\ fa_pc' = "hr_return"
    /\ UNCHANGED <<runVars, exVars, ctVars, xpVars, fa_row, fa_body, hr_attempt, hr_delay, hr_last, hr_outcomes, hr_slept, fa_ret>>

\* any other exception: return None
HrUnexpected ==
    /\ fa_pc = "hr_got"
    /\ hr_last.kind = "exc"
    /\ hr_ret' = "None"
    /\ fa_pc' = "hr_return"
    /\ UNCHANGED <<runVars, exVars, ctVars, xpVars, fa_row, fa_body, hr_attempt, hr_delay, hr_last, hr_outcomes, hr_slept, fa_ret>>

\* the loop is over: return None
HrExhausted ==
    /\ fa_pc = "hr_loop"
    /\ ~(hr_attempt < MAX_RETRIES)
    /\ hr_ret' = "None"
    /\ fa_pc' = "hr_return"
    /\ UNCHANGED <<runVars, exVars, ctVars, xpVars, fa_row, fa_body, hr_attempt, hr_delay, hr_last, hr_outcomes, hr_slept, fa_ret>>

\* fetch_and_extract_metadata after handle_request returned
FaFinish ==
    /\ fa_pc = "hr_return"
    /\ fa_ret' = IF hr_ret = "None" THEN PyNone
                 ELSE FetchTail(fa_row.publication_id.s, fa_body)
    /\ fa_pc' = "done"
    /\ UNCHANGED <<runVars, exVars, ctVars, xpVars, fa_row, fa_body, hr_attempt, hr_delay, hr_last, hr_outcomes, hr_slept, hr_ret>>

NextFetch ==
    \/ FaEnter
    \/ \E o \in GetOutcomes : HrGet(o)
    \/ HrRateLimited
    \/ HrFatalStatus
    \/ HrSuccess
    \/ HrTransportRetry
    \/ HrTransportGiveUp
    \/ HrUnexpected
    \/ HrExhausted
    \/ FaFinish


-----------------------------------------------------------------------------
(* process_publication_metadata: files, worklist, batches, workers *)

MaxRows == 3

MaxOutRows == 1

MaxBatchSize == 2

MaxWorkers == 2

Min(a, b) == IF a < b THEN a ELSE b

\* The sequences over S of length at most n.
SeqsUpTo(S, n) == UNION {[1..k -> S] : k \in 0..n}

\* The rows of an input CSV: the publication_id cell is empty or an identifier.
InputRows == {[publication_id |-> v] : v \in {JStr("")} \cup {JStr(i) : i \in Ids}}

\* A metadata record as save_metadata_batch writes it.
OutRecord(id) ==
    [t |-> "rec", publication_id |-> JStr(id),
     url |-> <<BASE_URL, "/publication/", NumericId(id)>>,
     type |-> PyNone, abstract |-> PyNone]

NoFile == [exists |-> FALSE, readable |-> FALSE, header |-> "none", rows |-> <<>>]

\* The output CSVs a run can find: none; one that cannot be read; an empty
\* file; a file whose header has no publication_id column; a metadata file.
OutFiles ==
    {NoFile,
     [exists |-> TRUE, readable |-> FALSE, header |-> "none", rows |-> <<>>],
     [exists |-> TRUE, readable |-> TRUE, header |-> "none", rows |-> <<>>],
     [exists |-> TRUE, readable |-> TRUE, header |-> "other", rows |-> <<OutRecord("PB:1")>>]}
      \cup {[exists |-> TRUE, readable |-> TRUE, header |-> "metadata",
             rows |-> [k \in DOMAIN r |-> OutRecord(r[k])]] : r \in SeqsUpTo(Ids, MaxOutRows)}

\* Mutant: the output file is never consulted.
ProcessedIdsNone(out) == {}

\* get_missing_ids, lines 223-232: the publication_id values of the output
\* file; the empty set when it is absent, cannot be read, is empty, or has no
\* such column.
ProcessedIds(out) ==
    IF ~out.exists THEN {}
    ELSE IF ~out.readable THEN {}
    ELSE IF out.header = "none" THEN {}
    ELSE IF out.header # "metadata" THEN {}
    ELSE {out.rows[k].publication_id : k \in 1..Len(out.rows)}

get_missing_ids(rows, out) ==
    LET processed_ids == ProcessedIds(out)
        Missing(row) == /\ Truthy(row.publication_id)
                        /\ row.publication_id \notin processed_ids
    IN  SelectSeq(rows, Missing)

\* Mutant: the slice is one row short.
BatchSliceShort(pubs, i, size) == SubSeq(pubs, i + 1, Min(i + size, Len(pubs)) - 1)

\* publications[i:i + batch_size]
BatchSlice(pubs, i, size) == SubSeq(pubs, i + 1, Min(i + size, Len(pubs)))

\* The worklist indexes of the batch that starts at i.
BatchRange(i) == (i + 1)..Min(i + batch_size, Len(publications))

\* i // batch_size + 1
BatchNo(i) == (i \div batch_size) + 1

\* Mutant: the flag is handed over as it is.
AppendModeInverted(first) == first

\* append_mode=not is_first_batch
AppendMode(first) == ~first

\* save_metadata_batch: mode 'w' truncates and writes the header, mode 'a'
\* appends the rows.
Saved(out, batch_rows, append_mode) ==
    IF append_mode
    THEN [out EXCEPT !.exists = TRUE, !.rows = out.rows \o batch_rows]
    ELSE [exists |-> TRUE, readable |-> TRUE, header |-> "metadata", rows |-> batch_rows]

\* What fetch_and_extract_metadata returns for a row, given what
\* handle_request returned and the body of its response.
fetch_and_extract_metadata(row, hr, body) ==
    IF ~Truthy(row.publication_id) THEN PyNone
    ELSE IF hr = "None" THEN PyNone
    ELSE FetchTail(row.publication_id.s, body)

\* The responses the workers of a run meet: the node asked for, a store
\* without it, a store holding a list value.
RunBodies(row) ==
    {[html |-> FALSE, decodes |-> TRUE,
      data |-> RigelDoc(JDict(<<PubKey("PB:1")>>, <<v>>))] :
        v \in {Node(row.publication_id, JStr("Publication")), PageList}}

NewTask == [state |-> "new", result |-> PyNone]

Busy(ts) == {g \in DOMAIN ts : ts[g].state \in {"pending", "running"}}

Running(ts) == {g \in DOMAIN ts : ts[g].state = "running"}

RunIdle ==
    /\ run_pc = "idle"
    /\ input_exists = FALSE
    /\ input_rows = <<>>
    /\ out_file = NoFile
    /\ out0 = NoFile
    /\ run_diff = FALSE
    /\ batch_size = 1
    /\ num_workers = 1
    /\ publications = <<>>
    /\ bi = 0
    /\ is_first_batch = TRUE
    /\ tasks = <<>>
    /\ coll = 0
    /\ meta = <<>>
    /\ completed = <<>>
    /\ batches = <<>>
    /\ writes = <<>>

InitRun ==
    /\ run_pc = "start"
    /\ input_exists \in BOOLEAN
    /\ input_rows \in IF input_exists THEN SeqsUpTo(InputRows, MaxRows) ELSE {<<>>}
    /\ out_file \in OutFiles
    /\ out0 = out_file
    /\ run_diff \in BOOLEAN
    /\ batch_size \in 1..MaxBatchSize
    /\ num_workers \in 1..MaxWorkers
    /\ publications = <<>>
    /\ bi = 0
    /\ is_first_batch = TRUE
    /\ tasks = <<>>
    /\ coll = 0
    /\ meta = <<>>
    /\ completed = <<>>
    /\ batches = <<>>
    /\ writes = <<>>

\* lines 256-257: the input file is missing
MainNoInput ==
    /\ run_pc = "start"
    /\ ~input_exists
    /\ run_pc' = "no_input"
    /\ UNCHANGED <<fetchVars, exVars, ctVars, xpVars, input_exists, input_rows, out_file, out0, run_diff, batch_size,
                   num_workers, publications, bi, is_first_batch, tasks, coll,
                   meta, completed, batches, writes>>

\* lines 268-281: the worklist and the mode
MainStart ==
    /\ run_pc = "start"
    /\ input_exists
    /\ LET pubs == IF run_diff /\ out_file.exists
                   THEN get_missing_ids(input_rows, out_file)
                   ELSE input_rows
       IN  /\ publications' = pubs
           /\ tasks' = [g \in 1..Len(pubs) |-> NewTask]
           /\ run_pc' = IF Len(pubs) = 0 THEN "done" ELSE "dispatch"
    /\ is_first_batch' = ~(run_diff /\ out_file.exists)
    /\ bi' = 0
    /\ UNCHANGED <<fetchVars, exVars, ctVars, xpVars, input_exists, input_rows, out_file, out0, run_diff, batch_size,
                   num_workers, coll, meta, completed, batches, writes>>

\* lines 285-293: the next batch is cut and every row of it submitted to a
\* new pool
MainDispatch ==
    /\ run_pc = "dispatch"
    /\ batches' = Append(batches, BatchSlice(publications, bi, batch_size))
    /\ tasks' = [g \in DOMAIN tasks |->
                   IF g \in (bi + 1)..(bi + Len(BatchSlice(publications, bi, batch_size)))
                   THEN [tasks[g] EXCEPT !.state = "pending"] ELSE tasks[g]]
    /\ coll' = 0
    /\ meta' = <<>>
    /\ run_pc' = "collect"
    /\ UNCHANGED <<fetchVars, exVars, ctVars, xpVars, input_exists, input_rows, out_file, out0, run_diff, batch_size,
                   num_workers, publications, bi, is_first_batch, completed, writes>>

\* A pool thread takes the oldest queued task; the pool has num_workers
\* threads.
WorkerStart(g) ==
    /\ g \in DOMAIN tasks
    /\ tasks[g].state = "pending"
    /\ \A h \in DOMAIN tasks : h < g => tasks[h].state # "pending"
    /\ Cardinality(Running(tasks)) < num_workers
    /\ tasks' = [tasks EXCEPT ![g].state = "running"]
    /\ UNCHANGED <<fetchVars, exVars, ctVars, xpVars, run_pc, input_exists, input_rows, out_file, out0, run_diff,
                   batch_size, num_workers, publications, bi, is_first_batch,
                   coll, meta, completed, batches, writes>>

\* The task's fetch_and_extract_metadata ends: with a record, None, or an
\* exception kept in the future.
WorkerFinish(g, hr, body) ==
    /\ g \in DOMAIN tasks
    /\ tasks[g].state = "running"
    /\ tasks' = [tasks EXCEPT ![g] =
                   [state |-> "done",
                    result |-> fetch_and_extract_metadata(publications[g], hr, body)]]
    /\ completed' = Append(completed, g)
    /\ UNCHANGED <<fetchVars, exVars, ctVars, xpVars, run_pc, input_exists, input_rows, out_file, out0, run_diff,
                   batch_size, num_workers, publications, bi, is_first_batch,
                   coll, meta, batches, writes>>

\* Mutant: results are taken as the futures complete (as_completed).
NextFutureAsCompleted(i, n) ==
    LET InBatch(g) == g \in BatchRange(i)
        done == SelectSeq(completed, InBatch)
    IN  IF n + 1 <= Len(done) THEN done[n + 1] ELSE 0

\* executor.map yields the results in the order of the rows submitted: the
\* (n+1)-th result taken is that of the (n+1)-th row of the batch.
NextFuture(i, n) == i + n + 1

\* future.result() returns once the task has ended.
ResultReady(task) == task.state = "done"

\* Mutant: the batch's results are dropped into the list without waiting for
\* the workers, and the pool is not joined.
MainCollectNoWait ==
    /\ run_pc = "collect"
    /\ LET g   == NextFuture(bi, coll)
           res == tasks[g].result
       IN  /\ meta' = IF res.t \in {"null", "raise"} THEN meta ELSE Append(meta, res)
           /\ coll' = coll + 1
           /\ run_pc' = IF bi + coll + 1 >= Min(bi + batch_size, Len(publications))
                        THEN "save" ELSE "collect"
    /\ UNCHANGED <<fetchVars, exVars, ctVars, xpVars, input_exists, input_rows, out_file, out0, run_diff, batch_size,
                   num_workers, publications, bi, is_first_batch, tasks,
                   completed, batches, writes>>

\* lines 295-297: the main thread takes the next result; None is left out; an
\* exception kept in the future is raised here, and the futures not yet
\* started are cancelled.
MainCollect ==
    /\ run_pc = "collect"
    /\ LET g == NextFuture(bi, coll)
       IN  /\ g \in DOMAIN tasks
           /\ ResultReady(tasks[g])
           /\ IF tasks[g].result.t = "raise"
              THEN /\ tasks' = [h \in DOMAIN tasks |->
                                  IF tasks[h].state = "pending"
                                  THEN [tasks[h] EXCEPT !.state = "cancelled"]
                                  ELSE tasks[h]]
                   /\ run_pc' = "unwind"
                   /\ UNCHANGED <<coll, meta>>
              ELSE /\ meta' = IF tasks[g].result.t = "null" THEN meta
                              ELSE Append(meta, tasks[g].result)
                   /\ coll' = coll + 1
                   /\ run_pc' = IF bi + coll + 1 >= Min(bi + batch_size, Len(publications))
                                THEN "join" ELSE "collect"
                   /\ UNCHANGED tasks
    /\ UNCHANGED <<fetchVars, exVars, ctVars, xpVars, input_exists, input_rows, out_file, out0, run_diff, batch_size,
                   num_workers, publications, bi, is_first_batch,
                   completed, batches, writes>>

\* The with block is left: shutdown(wait=True) returns when no task of the
\* pool is queued or running.
MainJoin ==
    /\ run_pc = "join"
    /\ Busy(tasks) = {}
    /\ run_pc' = "save"
    /\ UNCHANGED <<fetchVars, exVars, ctVars, xpVars, input_exists, input_rows, out_file, out0, run_diff, batch_size,
                   num_workers, publications, bi, is_first_batch, tasks, coll,
                   meta, completed, batches, writes>>

\* The with block is left by the exception: the pool is joined, then the
\* exception leaves process_publication_metadata.
MainUnwind ==
    /\ run_pc = "unwind"
    /\ Busy(tasks) = {}
    /\ run_pc' = "aborted"
    /\ UNCHANGED <<fetchVars, exVars, ctVars, xpVars, input_exists, input_rows, out_file, out0, run_diff, batch_size,
                   num_workers, publications, bi, is_first_batch, tasks, coll,
                   meta, completed, batches, writes>>

\* lines 301-312: the batch's records are saved, if any; then the next batch,
\* if any
MainSave ==
    /\ run_pc = "save"
    /\ IF meta # <<>>
       THEN /\ out_file' = Saved(out_file, meta, AppendMode(is_first_batch))
            /\ writes' = Append(writes,
                                [batch  |-> BatchNo(bi),
                                 mode   |-> IF AppendMode(is_first_batch) THEN "a" ELSE "w",
                                 header |-> ~AppendMode(is_first_batch),
                                 rows   |-> meta,
                                 busy   |-> Busy(tasks)])
            /\ is_first_batch' = FALSE
       ELSE UNCHANGED <<out_file, writes, is_first_batch>>
    /\ IF bi + batch_size < Len(publications)
       THEN /\ bi' = bi + batch_size
            /\ run_pc' = "dispatch"
       ELSE /\ run_pc' = "done"
            /\ UNCHANGED bi
    /\ UNCHANGED <<fetchVars, exVars, ctVars, xpVars, input_exists, input_rows, out0, run_diff, batch_size,
                   num_workers, publications, tasks, coll, meta, completed, batches>>

-----------------------------------------------------------------------------
(* publications.py and citations.py: the node extractors *)

\* x or {}
OrEmptyDict(x) == IF x.t = "raise" THEN Raised ELSE IF Truthy(x) THEN x ELSE EmptyDict

\* x or []
OrEmptyList(x) == IF x.t = "raise" THEN Raised ELSE IF Truthy(x) THEN x ELSE JList(<<>>)

\* f"{BASE_URL}/{url_path}" if url_path else None
FullUrl(url_path) ==
    IF Truthy(url_path) THEN [t |-> "url", base |-> BASE_URL, path |-> url_path]
    ELSE PyNone

\* int(s[:4]) on the date strings of the universe: the year, or no number
\* when the first four characters do not parse.
ParseYear(s) ==
    CASE s = "2021-05-01T00:00:00+00:00" -> [ok |-> TRUE, n |-> 2021]
      [] s = "2025-11-19T00:00:00+00:00" -> [ok |-> TRUE, n |-> 2025]
      [] OTHER                           -> [ok |-> FALSE, n |-> 0]

\* extract_year: None for a missing or empty date and for one whose first
\* four characters do not parse (any exception is swallowed).
extract_year(publication_date) ==
    IF ~Truthy(publication_date) THEN PyNone
    ELSE IF publication_date.t # "str" THEN PyNone
    ELSE IF ~ParseYear(publication_date.s).ok THEN PyNone
    ELSE [t |-> "int", n |-> ParseYear(publication_date.s).n]

\* is_publication_node(key, value)
is_publication_node(key, value) ==
    /\ StartsWith(key, <<"publication(">>)
    /\ IsDict(value)
    /\ PyGet(value, Key("__typename"), PyNone) = JStr("Publication")

\* A list with x put in front; Raised when building x or the rest raised.
Cons(x, rest) ==
    IF x.t = "raise" \/ rest.t = "raise" THEN Raised ELSE JList(<<x>> \o rest.xs)

\* The authors list of _build_publication_record_from_node from authorship
\* i on; Raised when an authorship has no .get, or its "author" is truthy
\* and no dict.
RECURSIVE BuildAuthors(_, _)
BuildAuthors(authorships, i) ==
    IF i > Len(authorships) THEN JList(<<>>)
    ELSE LET a          == authorships[i]
             full_name  == PyGet(a, Key("fullName"), PyNone)
             url        == PyGet(a, Key("url"), PyNone)
             author_obj == OrEmptyDict(PyGet(a, Key("author"), PyNone))
             author_id  == PyGet(author_obj, Key("id"), PyNone)
             author     == IF full_name.t = "raise" \/ author_id.t = "raise"
                           THEN Raised
                           ELSE [t |-> "author", author_id |-> author_id,
                                 full_name |-> full_name,
                                 profile_url |-> FullUrl(url)]
         IN  Cons(author, BuildAuthors(authorships, i + 1))

\* _build_publication_record_from_node(pub), pub a dict
build_publication_record(pub) ==
    LET publication_date == PyGet(pub, Key("publicationDate"), PyNone)
        journal      == PyGet(pub, Key("journal"), PyNone)
        stats        == OrEmptyDict(PyGet(pub, Key("stats"), PyNone))
        read_metrics == OrEmptyDict(PyGet(stats, Key("readMetrics"), PyNone))
        read_all     == OrEmptyDict(PyGet(read_metrics, Key("all"), PyNone))
        reads_total  == PyGet(read_all, Key("total"), PyNone)
        authorships  == OrEmptyList(PyGet(pub, Key("authorships"), PyNone))
        authors      == IF authorships.t = "list"
                        THEN BuildAuthors(authorships.xs, 1)
                        ELSE Raised
    IN  IF reads_total.t = "raise" \/ authors.t = "raise" THEN Raised
        ELSE [t                |-> "rec",
              publication_id   |-> PyGet(pub, Key("id"), PyNone),
              title            |-> PyGet(pub, Key("title"), PyNone),
              abstract         |-> PyGet(pub, Key("abstract"), PyNone),
              year             |-> extract_year(publication_date),
              publication_date |-> publication_date,
              url              |-> FullUrl(PyGet(pub, Key("url"), PyNone)),
              journal_title    |-> IF IsDict(journal)
                                   THEN PyGet(journal, Key("title"), PyNone)
                                   ELSE PyNone,
              citations_count  |-> PyGet(pub, Key("incomingCitationCount"), PyNone),
              reads_total      |-> reads_total,
              authors          |-> authors.xs]

\* Format 1, lines 116-119, from entry i on.
RECURSIVE StorePublications(_, _)
StorePublications(store, i) ==
    IF i > Len(store.ks) THEN JList(<<>>)
    ELSE IF ~is_publication_node(store.ks[i], store.vs[i])
         THEN StorePublications(store, i + 1)
         ELSE Cons(build_publication_record(store.vs[i]),
                   StorePublications(store, i + 1))

\* Format 2, lines 132-138, from node i on.
RECURSIVE NodePublications(_, _)
NodePublications(nodes, i) ==
    IF i > Len(nodes) THEN JList(<<>>)
    ELSE IF ~IsDict(nodes[i]) THEN NodePublications(nodes, i + 1)
    ELSE IF PyGet(nodes[i], Key("__typename"), PyNone) # JStr("Publication")
         THEN NodePublications(nodes, i + 1)
    ELSE Cons(build_publication_record(nodes[i]), NodePublications(nodes, i + 1))

\* extract_publications(rg_json): the list of records, or Raised
extract_publications(rg_json) ==
    LET result == PyGet(rg_json, Key("result"), EmptyDict)
        store  == PyGet(PyGet(PyGet(result, Key("state"), EmptyDict),
                              Key("rigel"), EmptyDict), Key("store"), EmptyDict)
        from_store ==
            IF store.t = "raise" THEN Raised
            ELSE IF ~Truthy(store) THEN JList(<<>>)
            ELSE IF ~IsDict(store) THEN Raised      \* store.items()
            ELSE StorePublications(store, 1)
        nodes  == PyGet(PyGet(PyGet(result, Key("data"), EmptyDict),
                              Key("publicationSearch"), EmptyDict),
                        Key("nodes"), JList(<<>>))
        from_nodes ==
            IF nodes.t = "raise" THEN Raised
            ELSE IF nodes.t = "list" THEN NodePublications(nodes.xs, 1)
            ELSE IF nodes.t \in {"dict", "str"} THEN JList(<<>>)  \* keys, characters
            ELSE Raised                                           \* not iterable
    IN  IF from_store.t = "raise" THEN Raised
        ELSE IF from_store.xs # <<>> THEN from_store
        ELSE from_nodes

\* authors = [a.get("fullName") for a in authors_raw]
RECURSIVE CitingAuthors(_, _)
CitingAuthors(authors_raw, i) ==
    IF i > Len(authors_raw) THEN JList(<<>>)
    ELSE Cons(PyGet(authors_raw[i], Key("fullName"), PyNone),
              CitingAuthors(authors_raw, i + 1))

\* The record extract_citing_publications builds from a store value.
citing_record(val) ==
    LET authors_raw == OrEmptyList(PyGet(val, Key("authorships"), PyNone))
        authors     == IF authors_raw.t = "list"
                       THEN CitingAuthors(authors_raw.xs, 1)
                       ELSE Raised
    IN  IF authors.t = "raise" THEN Raised
        ELSE [t               |-> "rec",
              publication_id  |-> PyGet(val, Key("id"), PyNone),
              title           |-> PyGet(val, Key("title"), PyNone),
              url             |-> FullUrl(PyGet(val, Key("url"), PyNone)),
              type            |-> PyGet(val, Key("type"), PyNone),
              publicationDate |-> PyGet(val, Key("publicationDate"), PyNone),
              authors         |-> authors.xs,
              abstract        |-> PyGet(val, Key("abstract"), PyNone),
              doi             |-> PyGet(val, Key("doi"), PyNone)]

\* The loop of extract_citing_publications from entry i on.
RECURSIVE CitingPublications(_, _)
CitingPublications(store, i) ==
    IF i > Len(store.ks) THEN JList(<<>>)
    ELSE IF ~StartsWith(store.ks[i], <<"publication(">>)
         THEN CitingPublications(store, i + 1)
    ELSE IF ~IsDict(store.vs[i]) THEN CitingPublications(store, i + 1)
    ELSE Cons(citing_record(store.vs[i]), CitingPublications(store, i + 1))

\* extract_citing_publications(store): the list of records, or Raised
extract_citing_publications(store) ==
    IF ~IsDict(store) THEN Raised              \* store.items()
    ELSE CitingPublications(store, 1)

\* A string kept as its tokens, so that startswith and split see its parts.
JText(toks) == [t |-> "text", toks |-> toks]

JInt(n) == [t |-> "int", n |-> n]

\* isinstance(v, str)
IsStr(v) == v.t \in {"str", "text"}

\* The elements a for loop over v visits: the items of a list, the keys of a
\* dict, the characters of a string; a TypeError for anything else.
Iterate(v) ==
    CASE v.t = "raise" -> Raised
      [] v.t = "list"  -> v
      [] v.t = "dict"  -> JList([i \in 1..Len(v.ks) |-> JText(v.ks[i])])
      [] v.t = "str"   -> IF v.s = "" THEN JList(<<>>) ELSE JList(<<JStr("c")>>)
      [] v.t = "text"  -> JList(<<JStr("c")>>)
      [] OTHER         -> Raised

\* a.extend(b), either of them possibly an exception
Extend(a, b) ==
    IF a.t = "raise" \/ b.t = "raise" THEN Raised ELSE JList(a.xs \o b.xs)

\* f'publication(id:"{cited_pub_id}"'
CitedPrefix(cited_pub_id) == <<"publication(", "id:", Q, cited_pub_id, Q>>

\* ref.startswith("publication(id:")
IsPublicationRef(ref) ==
    /\ IsStr(ref)
    /\ ref.t = "text"
    /\ StartsWith(ref.toks, <<"publication(", "id:">>)

\* Positions of the double quotes in a token sequence.
QuoteAt(toks) == {i \in 1..Len(toks) : toks[i] = Q}

\* ref.split('"')[1]: the text between the first quote and the second (or
\* the end of the string); an IndexError when the string has no quote.
SplitQuoteSecond(toks) ==
    IF QuoteAt(toks) = {} THEN Raised
    ELSE LET first == CHOOSE i \in QuoteAt(toks) : \A j \in QuoteAt(toks) : i <= j
             later == {j \in QuoteAt(toks) : j > first}
             stop  == IF later = {} THEN Len(toks) + 1
                      ELSE CHOOSE j \in later : \A k \in later : j <= k
         IN  JText(SubSeq(toks, first + 1, stop - 1))

\* The body of the inner loop of extract_citation_edges for one entry: the
\* edges it appends (none or one), or Raised.
EntryEdges(entry, cited_pub_id, topic) ==
    LET source == OrEmptyDict(PyGet(entry, Key("sourcePublication"), EmptyDict))
        ref    == PyGet(source, Key("__ref__"), PyNone)
    IN  IF ref.t = "raise" THEN Raised
        ELSE IF ~IsPublicationRef(ref) THEN JList(<<>>)
        ELSE LET citing_id == SplitQuoteSecond(ref.toks)
             IN  IF citing_id.t = "raise" THEN Raised
                 ELSE JList(<<[t |-> "edge",
                               topic |-> topic,
                               cited_publication_id |-> cited_pub_id,
                               citing_publication_id |-> citing_id.toks]>>)

\* for entry in page.get("list", []), from entry i on
RECURSIVE ListEdges(_, _, _, _)
ListEdges(entries, i, cited_pub_id, topic) ==
    IF i > Len(entries) THEN JList(<<>>)
    ELSE LET here == EntryEdges(entries[i], cited_pub_id, topic)
         IN  IF here.t = "raise" THEN Raised
             ELSE Extend(here, ListEdges(entries, i + 1, cited_pub_id, topic))

\* for page in pages, from page i on
RECURSIVE PageEdges(_, _, _, _)
PageEdges(pages, i, cited_pub_id, topic) ==
    IF i > Len(pages) THEN JList(<<>>)
    ELSE LET entries == Iterate(PyGet(pages[i], Key("list"), JList(<<>>)))
             here    == IF entries.t = "raise" THEN Raised
                        ELSE ListEdges(entries.xs, 1, cited_pub_id, topic)
         IN  IF here.t = "raise" THEN Raised
             ELSE Extend(here, PageEdges(pages, i + 1, cited_pub_id, topic))

\* The first loop of extract_citation_edges: `incoming` after it, None when
\* no key starts with the prefix.
Incoming(store, cited_pub_id) ==
    LET hits == {i \in 1..Len(store.ks) :
                    StartsWith(store.ks[i], CitedPrefix(cited_pub_id))}
    IN  IF hits = {} THEN PyNone
        ELSE LET first == CHOOSE i \in hits : \A j \in hits : i <= j
             IN  PyGet(store.vs[first],
                       Key("incomingCitingPublicationsWithContext"), EmptyDict)

\* extract_citation_edges(store, cited_pub_id, topic): the list of edges, or
\* Raised
extract_citation_edges(store, cited_pub_id, topic) ==
    IF ~IsDict(store) THEN Raised              \* store.items()
    ELSE LET incoming == Incoming(store, cited_pub_id)
         IN  IF incoming.t = "raise" THEN Raised
             ELSE IF ~Truthy(incoming) THEN JList(<<>>)
             ELSE LET pages == Iterate(PyGet(incoming, Key("__pagination__"),
                                             JList(<<>>)))
                  IN  IF pages.t = "raise" THEN Raised
                      ELSE PageEdges(pages.xs, 1, cited_pub_id, topic)

\* The documents given to the extractors: a store (format 1), a node list
\* (format 2), or both, with at most MaxDocNodes nodes in all.
MaxDocNodes == 2

TypeValues == {Absent, JStr("Publication"), JStr("Author")}

ExtractValues ==
    {Node(id, ty) : id \in {Absent, PyNone, JStr("PB:1")}, ty \in TypeValues}
      \cup {PageList}

ExtractKeys == {PubKey(i) : i \in Ids} \cup {AuthorKey("AU:1")}

ExtractStores ==
    UNION {StoresOfLen(n, ExtractKeys, ExtractValues) : n \in 0..MaxDocNodes}

\* {"result": {"state": {"rigel": {"store": store}},
\*             "data": {"publicationSearch": {"nodes": nodes}}}}
\* where Absent for store or nodes leaves "state" or "data" out.
SearchDoc(store, nodes) ==
    LET st == IF store.t = "absent" THEN <<>>
              ELSE << <<Key("state"),
                        JDict(<<Key("rigel")>>,
                              <<JDict(<<Key("store")>>, <<store>>)>>)>> >>
        da == IF nodes.t = "absent" THEN <<>>
              ELSE << <<Key("data"),
                        JDict(<<Key("publicationSearch")>>,
                              <<JDict(<<Key("nodes")>>, <<nodes>>)>>)>> >>
        kv == st \o da
    IN  JDict(<<Key("result")>>,
              <<JDict([i \in 1..Len(kv) |-> kv[i][1]], [i \in 1..Len(kv) |-> kv[i][2]])>>)

NodeLists == {JList(xs) : xs \in SeqsUpTo(ExtractValues, MaxDocNodes)}

DocSize(store, nodes) ==
    (IF store.t = "absent" THEN 0 ELSE Len(store.ks))
      + (IF nodes.t = "absent" THEN 0 ELSE Len(nodes.xs))

ExtractDocs ==
    {SearchDoc(p[1], p[2]) :
        p \in {q \in ({Absent} \cup ExtractStores) \X ({Absent} \cup NodeLists) :
                  DocSize(q[1], q[2]) <= MaxDocNodes}}

\* Documents in which a container on the way to the store or to the nodes
\* is null or a list, or the document has no "result".
PublicationNode == Node(JStr("PB:1"), JStr("Publication"))

MalformedDocs ==
    {EmptyDict,
     JDict(<<Key("result")>>, <<PyNone>>),
     JDict(<<Key("result")>>,
           <<JDict(<<Key("state"), Key("data")>>,
                   <<PyNone,
                     JDict(<<Key("publicationSearch")>>,
                           <<JDict(<<Key("nodes")>>,
                                   <<JList(<<PublicationNode>>)>>)>>)>>)>>),
     RigelDoc(JList(<<PublicationNode>>)),
     SearchDoc(Absent, PyNone)}

\* The stores of a citations response: under the key of a publication, a
\* node whose "incomingCitingPublicationsWithContext" holds pages of entries,
\* each entry pointing back at the citing publication.
MaxPages == 2

MaxEdgeEntries == 2

UnquotedRef == <<"publication(", "id:", "PB:2", ")">>

EdgeRefs ==
    {Absent, PyNone, JText(PubKey("PB:2")), JText(AuthorKey("AU:1")),
     JText(UnquotedRef)}

EdgeEntry(ref) ==
    IF ref.t = "absent" THEN JDict(<<Key("sourcePublication")>>, <<PyNone>>)
    ELSE JDict(<<Key("sourcePublication")>>,
               <<JDict(<<Key("__ref__")>>, <<ref>>)>>)

EdgeEntries == {EdgeEntry(ref) : ref \in EdgeRefs}

Page(entries) == JDict(<<Key("list")>>, <<entries>>)

EdgePages ==
    {Page(JList(es)) : es \in SeqsUpTo(EdgeEntries, MaxEdgeEntries)}
      \cup {Page(PyNone)}

PageSize(page) == IF page.vs[1].t = "list" THEN Len(page.vs[1].xs) ELSE 0

RECURSIVE SumSizes(_)
SumSizes(pages) ==
    IF pages = <<>> THEN 0 ELSE PageSize(Head(pages)) + SumSizes(Tail(pages))

Paginations ==
    {ps \in SeqsUpTo(EdgePages, MaxPages) : SumSizes(ps) <= MaxEdgeEntries}

IncomingValues ==
    {Absent, PyNone, JDict(<<Key("__pagination__")>>, <<PyNone>>)}
      \cup {JDict(<<Key("__pagination__")>>, <<JList(ps)>>) : ps \in Paginations}

CitedNode(id, incoming) ==
    IF incoming.t = "absent"
    THEN JDict(<<Key("id")>>, <<JStr(id)>>)
    ELSE JDict(<<Key("id"), Key("incomingCitingPublicationsWithContext")>>,
               <<JStr(id), incoming>>)

RepeatedRefs ==
    JDict(<<Key("__pagination__")>>,
          <<JList(<<Page(JList(<<EdgeEntry(JText(PubKey("PB:2"))),
                                 EdgeEntry(JText(PubKey("PB:2")))>>))>>)>>)

EdgeStores ==
    {JDict(<<PubKey(id)>>, <<CitedNode(id, inc)>>) :
        id \in Ids, inc \in IncomingValues}
      \cup {JDict(<<AuthorKey("AU:1"), PubKey(id)>>,
                  <<Node(JStr("AU:1"), JStr("Author")), CitedNode(id, RepeatedRefs)>>) :
              id \in Ids}
      \cup {JDict(<<PubKey(id)>>, <<PageList>>) : id \in Ids}

EdgeDocs == {RigelDoc(store) : store \in EdgeStores}

Topics == {"ai", "ml"}

NoArg == [pub_id |-> "", topic |-> ""]

NoDoc == PyNone

ExIdle ==
    /\ ex_pc = "idle"
    /\ ex_doc = NoDoc
    /\ ex_op = "none"
    /\ ex_arg = NoArg
    /\ ex_out = [t |-> "unset"]

InitExtract ==
    /\ ex_pc = "ready"
    /\ ex_doc \in ExtractDocs \cup MalformedDocs \cup EdgeDocs
    /\ ex_op = "none"
    /\ ex_arg = NoArg
    /\ ex_out = [t |-> "unset"]

\* pubs = extract_publications(data)
ExPublications ==
    /\ ex_pc = "ready"
    /\ ex_out' = extract_publications(ex_doc)
    /\ ex_op' = "extract_publications"
    /\ ex_arg' = NoArg
    /\ ex_pc' = "done"
    /\ UNCHANGED <<fetchVars, runVars, ctVars, xpVars, ex_doc>>

\* citing_pubs = extract_citing_publications(store), store taken from the
\* document as process_citations_for_publications takes it
ExCiting ==
    /\ ex_pc = "ready"
    /\ ex_out' = LET store == RigelStore(ex_doc)
                 IN  IF store.t = "raise" THEN Raised
                     ELSE extract_citing_publications(store)
    /\ ex_op' = "extract_citing_publications"
    /\ ex_arg' = NoArg
    /\ ex_pc' = "done"
    /\ UNCHANGED <<fetchVars, runVars, ctVars, xpVars, ex_doc>>

\* metadata = extract_publication_metadata(store, pub_id), store taken from
\* the document and pub_id non-empty as fetch_and_extract_metadata has them
ExMetadata(pub_id) ==
    /\ ex_pc = "ready"
    /\ ex_out' = LET store == RigelStore(ex_doc)
                     md    == IF store.t = "raise" THEN Raised
                              ELSE extract_publication_metadata(store, pub_id)
                 IN  IF md.t = "raise" THEN Raised
                     ELSE IF md.t = "null" THEN JList(<<>>)
                     ELSE JList(<<md>>)
    /\ ex_op' = "extract_publication_metadata"
    /\ ex_arg' = [pub_id |-> pub_id, topic |-> ""]
    /\ ex_pc' = "done"
    /\ UNCHANGED <<fetchVars, runVars, ctVars, xpVars, ex_doc>>

\* edges = extract_citation_edges(store, pub_id, topic), store taken from
\* the document as process_citations_for_publications takes it
ExEdges(pub_id, topic) ==
    /\ ex_pc = "ready"
    /\ ex_out' = LET store == RigelStore(ex_doc)
                 IN  IF store.t = "raise" THEN Raised
                     ELSE extract_citation_edges(store, pub_id, topic)
    /\ ex_op' = "extract_citation_edges"
    /\ ex_arg' = [pub_id |-> pub_id, topic |-> topic]
    /\ ex_pc' = "done"
    /\ UNCHANGED <<fetchVars, runVars, ctVars, xpVars, ex_doc>>

NextExtract ==
    \/ ExPublications
    \/ ExCiting
    \/ \E pub_id \in Ids : ExMetadata(pub_id)
    \/ \E pub_id \in Ids : \E topic \in Topics : ExEdges(pub_id, topic)

-----------------------------------------------------------------------------
(* citations.py: process_citations_for_publications *)

MaxCtRows == 2

NoCsv == [exists |-> FALSE, rows |-> <<>>]

\* Rows of publications_raw.csv as csv.DictReader gives them.
CtRows == {[topic |-> t, publication_id |-> id] : t \in Topics, id \in Ids}

\* A row a previous run left in an output file.
OldRow == [t |-> "old"]

\* The decoded bodies of the 200 responses.
CitationDocs ==
    {RigelDoc(EmptyDict),
     RigelDoc(JDict(<<PubKey("PB:1")>>, <<CitedNode("PB:1", RepeatedRefs)>>)),
     RigelDoc(JDict(<<PubKey("PB:1")>>,
         <<CitedNode("PB:1", JDict(<<Key("__pagination__")>>,
              <<JList(<<Page(JList(<<EdgeEntry(JText(UnquotedRef))>>))>>)>>))>>)),
     JDict(<<Key("result")>>, <<PyNone>>)}

\* What requests.get and decode_response give for one row: a transport
\* exception, a status other than 200, a 200 whose body does not decode, or a
\* 200 with a decoded body.
CtOutcomes ==
    {[kind |-> "reqexc", code |-> 0, data |-> PyNone],
     [kind |-> "status", code |-> 404, data |-> PyNone],
     [kind |-> "baddecode", code |-> 200, data |-> PyNone]}
      \cup {[kind |-> "status", code |-> 200, data |-> d] : d \in CitationDocs}

\* for cp in citing_pubs: cp["topic"] = topic
RECURSIVE WithTopic(_, _)
WithTopic(pubs, topic) ==
    IF pubs = <<>> THEN <<>>
    ELSE <<[rec |-> Head(pubs), topic |-> topic]>> \o WithTopic(Tail(pubs), topic)

CtIdle ==
    /\ ct_pc = "idle"
    /\ pubs_csv = NoCsv
    /\ ct_row = 0
    /\ ct_requests = 0
    /\ all_edges = <<>>
    /\ all_citing_pubs = <<>>
    /\ edges_csv = NoCsv
    /\ citing_pubs_csv = NoCsv
    /\ ct_out0 = <<NoCsv, NoCsv>>

InitCitations ==
    /\ ct_pc = "start"
    /\ pubs_csv \in {NoCsv} \cup {[exists |-> TRUE, rows |-> rs] :
                                    rs \in SeqsUpTo(CtRows, MaxCtRows)}
    /\ ct_row = 0
    /\ ct_requests = 0
    /\ all_edges = <<>>
    /\ all_citing_pubs = <<>>
    /\ edges_csv \in {NoCsv, [exists |-> TRUE, rows |-> <<OldRow>>]}
    /\ citing_pubs_csv = edges_csv
    /\ ct_out0 = <<edges_csv, citing_pubs_csv>>

\* The missing-input exit with the edges file opened for writing before the
\* test.
CtNoInputTruncates ==
    /\ ct_pc = "start"
    /\ ~pubs_csv.exists
    /\ ct_pc' = "no_input"
    /\ edges_csv' = [exists |-> TRUE, rows |-> <<>>]
    /\ UNCHANGED <<fetchVars, runVars, exVars, xpVars, pubs_csv, ct_row,
                   ct_requests, all_edges, all_citing_pubs,
                   citing_pubs_csv, ct_out0>>

\* lines 175-176: publications_raw.csv is missing
CtNoInput ==
    /\ ct_pc = "start"
    /\ ~pubs_csv.exists
    /\ ct_pc' = "no_input"
    /\ UNCHANGED <<fetchVars, runVars, exVars, xpVars, pubs_csv, ct_row,
                   ct_requests, all_edges, all_citing_pubs, edges_csv,
                   citing_pubs_csv, ct_out0>>

\* lines 178-184: the rows are read
CtStart ==
    /\ ct_pc = "start"
    /\ pubs_csv.exists
    /\ ct_pc' = "loop"
    /\ ct_row' = 1
    /\ UNCHANGED <<fetchVars, runVars, exVars, xpVars, pubs_csv,
                   ct_requests, all_edges, all_citing_pubs, edges_csv,
                   citing_pubs_csv, ct_out0>>

\* lines 185-217: one pass of the loop, for the row at ct_row
CtRequest(o) ==
    /\ ct_pc = "loop"
    /\ ct_row <= Len(pubs_csv.rows)
    /\ ct_requests' = ct_requests + 1
    /\ LET row    == pubs_csv.rows[ct_row]
           store  == RigelStore(o.data)
           edges  == IF store.t = "raise" THEN Raised
                     ELSE extract_citation_edges(store, row.publication_id, row.topic)
           citing == IF store.t = "raise" THEN Raised
                     ELSE extract_citing_publications(store)
       IN  IF o.kind \in {"reqexc", "baddecode"}
           THEN /\ ct_pc' = "raised"
                /\ UNCHANGED <<ct_row, all_edges, all_citing_pubs>>
           ELSE IF o.code # 200
           THEN /\ ct_row' = ct_row + 1
                /\ UNCHANGED <<ct_pc, all_edges, all_citing_pubs>>
           ELSE IF edges.t = "raise"
           THEN /\ ct_pc' = "raised"
                /\ UNCHANGED <<ct_row, all_edges, all_citing_pubs>>
           ELSE IF citing.t = "raise"
           THEN /\ ct_pc' = "raised"
                /\ all_edges' = all_edges \o edges.xs
                /\ UNCHANGED <<ct_row, all_citing_pubs>>
           ELSE /\ all_edges' = all_edges \o edges.xs
                /\ all_citing_pubs' = all_citing_pubs \o WithTopic(citing.xs, row.topic)
                /\ ct_row' = ct_row + 1
                /\ UNCHANGED ct_pc
    /\ UNCHANGED <<fetchVars, runVars, exVars, xpVars, pubs_csv, edges_csv,
                   citing_pubs_csv, ct_out0>>

\* lines 219-247: after the loop both files are written anew
CtWrite ==
    /\ ct_pc = "loop"
    /\ ct_row > Len(pubs_csv.rows)
    /\ edges_csv' = [exists |-> TRUE, rows |-> all_edges]
    /\ citing_pubs_csv' = [exists |-> TRUE, rows |-> all_citing_pubs]
    /\ ct_pc' = "done"
    /\ UNCHANGED <<fetchVars, runVars, exVars, xpVars, pubs_csv, ct_row,
                   ct_requests, all_edges, all_citing_pubs, ct_out0>>

-----------------------------------------------------------------------------
(* publications.py: export_raw_publications and replace_source_file_rows *)

MaxExports == 3

MaxExportNodes == 2

SourceFiles == {"A.json", "B.json"}

\* The text csv.DictWriter writes for a value, as its parts: nothing for
\* None, the string itself, the decimal digits of an int.
Cell(v) ==
    CASE v.t = "null" -> <<>>
      [] v.t = "str"  -> IF v.s = "" THEN <<>> ELSE <<v.s>>
      [] v.t = "int"  -> <<ToString(v.n)>>
      [] v.t = "url"  -> <<v.base, "/">> \o (IF v.path.t = "str" THEN <<v.path.s>>
                                             ELSE <<"repr">>)
      [] v.t = "text" -> v.toks
      [] OTHER        -> <<"repr">>

\* A text file opened for reading without newline="" gives "\r\n" and "\r"
\* as "\n", inside quoted fields too.
UniversalNewlines(part) ==
    CASE part = "a\r\nb" -> "a\nb"
      [] part = "a\rb"   -> "a\nb"
      [] OTHER           -> part

RowFields ==
    {"topic", "source_file", "publication_id", "title", "year", "url",
     "citations_count"}

\* The row csv.DictWriter writes for a dict.
WriteRow(row) == [f \in RowFields |-> Cell(row[f])]

\* The dict csv.DictReader gives for a row of the file.
ReadRow(cells) ==
    [f \in RowFields |-> [i \in 1..Len(cells[f]) |-> UniversalNewlines(cells[f][i])]]

\* lines 207-218: the rows built from the extracted publications
RECURSIVE ExportRows(_, _, _)
ExportRows(pubs, topic, source_file) ==
    IF pubs = <<>> THEN <<>>
    ELSE <<[topic           |-> JStr(topic),
            source_file     |-> JStr(source_file),
            publication_id  |-> Head(pubs).publication_id,
            title           |-> Head(pubs).title,
            year            |-> Head(pubs).year,
            url             |-> Head(pubs).url,
            citations_count |-> Head(pubs).citations_count]>>
         \o ExportRows(Tail(pubs), topic, source_file)

\* replace_source_file_rows(csv_path, source_file, new_rows, fieldnames): the
\* file it leaves
replace_source_file_rows(csv, source_file, new_rows) ==
    LET Other(r) == r.source_file # <<source_file>>
        read     == [i \in 1..Len(csv.rows) |-> ReadRow(csv.rows[i])]
        rows     == IF csv.exists THEN SelectSeq(read, Other) ELSE <<>>
    IN  [exists |-> TRUE,
         rows   |-> rows \o [i \in 1..Len(new_rows) |-> WriteRow(new_rows[i])]]

ExportNode(id, title, rest) ==
    JDict(<<Key("__typename"), Key("id"), Key("title")>> \o rest[1],
          <<JStr("Publication"), id, title>> \o rest[2])

ExportNodes ==
    {ExportNode(JStr("PB:1"), JStr("plain"),
                << <<Key("publicationDate"), Key("url"), Key("incomingCitationCount")>>,
                   <<JStr("2021-05-01T00:00:00+00:00"), JStr("publication/1_plain"),
                     JInt(7)>> >>),
     ExportNode(JStr("PB:2"), JStr("a\r\nb"), << <<>>, <<>> >>),
     ExportNode(PyNone, PyNone, << <<>>, <<>> >>)}

\* What json.loads gives for a saved file.
ExportDocs ==
    {SearchDoc(Absent, JList(ns)) : ns \in SeqsUpTo(ExportNodes, MaxExportNodes)}
      \cup {JDict(<<Key("result")>>, <<PyNone>>)}

XpIdle ==
    /\ xp_pc = "idle"
    /\ json_files = [f \in SourceFiles |-> Absent]
    /\ raw_csv = NoCsv
    /\ raw_csv0 = NoCsv
    /\ xp_calls = <<>>

InitExport ==
    /\ xp_pc = "ready"
    /\ json_files \in [SourceFiles -> ExportDocs \cup {Absent}]
    /\ raw_csv = NoCsv
    /\ raw_csv0 = NoCsv
    /\ xp_calls = <<>>

\* lines 189-190: the JSON file is missing
ExportNoInput(topic, source_file) ==
    /\ xp_pc # "idle"
    /\ Len(xp_calls) < MaxExports
    /\ json_files[source_file].t = "absent"
    /\ xp_pc' = "no_input"
    /\ raw_csv0' = raw_csv
    /\ xp_calls' = Append(xp_calls, [topic |-> topic, source_file |-> source_file,
                                     new_rows |-> <<>>])
    /\ UNCHANGED <<fetchVars, runVars, exVars, ctVars, json_files, raw_csv>>

\* lines 192-233: the file is read, the publications extracted and the rows
\* of this source file replaced
export_raw_publications(topic, source_file) ==
    /\ xp_pc # "idle"
    /\ Len(xp_calls) < MaxExports
    /\ json_files[source_file].t # "absent"
    /\ LET pubs == extract_publications(json_files[source_file])
           rows == IF pubs.t = "raise" THEN <<>>
                   ELSE ExportRows(pubs.xs, topic, source_file)
       IN  /\ xp_pc' = IF pubs.t = "raise" THEN "raised" ELSE "done"
           /\ raw_csv' = IF pubs.t = "raise" THEN raw_csv
                         ELSE replace_source_file_rows(raw_csv, source_file, rows)
           /\ xp_calls' = Append(xp_calls, [topic |-> topic,
                                            source_file |-> source_file,
                                            new_rows |-> rows])
    /\ raw_csv0' = raw_csv
    /\ UNCHANGED <<fetchVars, runVars, exVars, ctVars, json_files>>

NextExport ==
    \/ \E topic \in Topics : \E source_file \in SourceFiles :
          ExportNoInput(topic, source_file)
    \/ \E topic \in Topics : \E source_file \in SourceFiles :
          export_raw_publications(topic, source_file)

Next ==
    \/ MainNoInput
    \/ MainStart
    \/ MainDispatch
    \/ \E g \in 1..Len(publications) : WorkerStart(g)
    \/ \E g \in 1..Len(publications) :
          \E hr \in {"None", "resp"} :
             \E body \in RunBodies(publications[g]) : WorkerFinish(g, hr, body)
    \/ MainCollect
    \/ MainJoin
    \/ MainUnwind
    \/ MainSave
    \/ CtNoInput
    \/ CtStart
    \/ \E o \in CtOutcomes : CtRequest(o)
    \/ CtWrite
    \/ \E topic \in Topics : \E source_file \in SourceFiles :
          ExportNoInput(topic, source_file)
    \/ \E topic \in Topics : \E source_file \in SourceFiles :
          export_raw_publications(topic, source_file)

\* One of the three entry points is called.
Init ==
    /\ FetchIdle
    /\ ExIdle
    /\ \/ InitRun /\ CtIdle /\ XpIdle
       \/ RunIdle /\ InitCitations /\ XpIdle
       \/ RunIdle /\ CtIdle /\ InitExport

Spec == Init /\ [][Next]_vars

InitFetchOnly == InitFetch /\ RunIdle /\ ExIdle /\ CtIdle /\ XpIdle

SpecFetch == InitFetchOnly /\ [][NextFetch]_vars

InitExtractOnly == InitExtract /\ FetchIdle /\ RunIdle /\ CtIdle /\ XpIdle

SpecExtract == InitExtractOnly /\ [][NextExtract]_vars

InitExportOnly == InitExport /\ FetchIdle /\ RunIdle /\ ExIdle /\ CtIdle

SpecExport == InitExportOnly /\ [][NextExport]_vars

-----------------------------------------------------------------------------
(* Properties of handle_request and fetch_and_extract_metadata *)

RateLimitedOutcome == [kind |-> "status", code |-> 429]

AllRateLimited ==
    \A i \in 1..Len(hr_outcomes) : hr_outcomes[i] = RateLimitedOutcome

IsFatalOutcome(o) == o.kind = "status" /\ o.code \notin {200, 429}

IsRetryableOutcome(o) == o = RateLimitedOutcome \/ o.kind = "reqexc"

RECURSIVE Pow2(_)
Pow2(n) == IF n = 0 THEN 1 ELSE 2 * Pow2(n - 1)

\* C1: while every answer so far was a 429, at most 3 GETs have been issued
\* and the delays slept are a prefix of d, 2d, 4d; once handle_request has
\* returned after nothing but 429s, it returned None after exactly 3 GETs and
\* slept exactly d, 2d, 4d.
C1_RateLimitExhaustion ==
    LET d == INITIAL_RETRY_DELAY
    IN  AllRateLimited =>
          /\ Len(hr_outcomes) <= 3
          /\ \E n \in 0..3 : hr_slept = SubSeq(<<d, 2 * d, 4 * d>>, 1, n)
          /\ hr_ret # "unset" =>
               /\ hr_ret = "None"
               /\ Len(hr_outcomes) = 3
               /\ hr_slept = <<d, 2 * d, 4 * d>>

C1_Witness ==
    /\ fa_pc = "done"
    /\ hr_ret = "None"
    /\ hr_outcomes = <<RateLimitedOutcome, RateLimitedOutcome, RateLimitedOutcome>>
    /\ hr_slept = <<3, 6, 12>>

\* C2: a status that is neither 200 nor 429 is the last GET of the call: it
\* is followed by no sleep (the sleeps are those of the attempts before it)
\* and no other GET, and handle_request returns None, as does the worker.
C2_FatalStatusNoRetry ==
    \A i \in 1..Len(hr_outcomes) :
        IsFatalOutcome(hr_outcomes[i]) =>
          /\ i = Len(hr_outcomes)
          /\ Len(hr_slept) = i - 1
          /\ fa_pc \in {"hr_got", "hr_return", "done"}
          /\ fa_pc # "hr_got" => hr_ret = "None"
          /\ fa_pc = "done" => fa_ret = PyNone

C2_Witness ==
    /\ fa_pc = "done"
    /\ Len(hr_outcomes) = 2
    /\ hr_outcomes[1] = RateLimitedOutcome
    /\ hr_outcomes[2] = [kind |-> "status", code |-> 500]
    /\ hr_slept = <<3>>
    /\ hr_ret = "None"

\* C3: never more than 3 GETs; the n-th sleep is d * 2^(n-1) whatever kind of
\* retryable outcome came before it; after a retryable outcome on attempt 1
\* or 2 the call has not returned, it sleeps and comes back to the loop where
\* the next GET is enabled; a 200 on any attempt ends the call with the
\* response as result.
C3_RetryAnyMix ==
    LET d == INITIAL_RETRY_DELAY
    IN  /\ Len(hr_outcomes) <= 3
        /\ \A n \in 1..Len(hr_slept) : hr_slept[n] = d * Pow2(n - 1)
        /\ \A i \in 1..Len(hr_outcomes) :
              (IsRetryableOutcome(hr_outcomes[i]) /\ i < 3) =>
                 \/ i < Len(hr_outcomes)
                 \/ fa_pc = "hr_got" /\ hr_ret = "unset"
                 \/ /\ fa_pc = "hr_loop" /\ hr_ret = "unset"
                    /\ Len(hr_slept) = i
                    /\ ENABLED (\E o \in GetOutcomes : HrGet(o))
        /\ \A i \in 1..Len(hr_outcomes) :
              hr_outcomes[i] = [kind |-> "status", code |-> 200] =>
                 /\ i = Len(hr_outcomes)
                 /\ fa_pc # "hr_got" => hr_ret = "resp"

C3_Witness ==
    /\ hr_outcomes = <<[kind |-> "reqexc", code |-> 0], RateLimitedOutcome,
                       [kind |-> "status", code |-> 200]>>
    /\ hr_slept = <<3, 6>>
    /\ hr_ret = "resp"

\* C4: fetch_and_extract_metadata returns a record or None and never raises.
C4_FetchNeverRaises == fa_ret.t # "raise"

-----------------------------------------------------------------------------
(* Properties of process_publication_metadata *)

CeilDiv(n, b) == (n + b - 1) \div b

RECURSIVE Concat(_)
Concat(ss) == IF ss = <<>> THEN <<>> ELSE Head(ss) \o Concat(Tail(ss))

\* C5: the k-th batch dispatched holds the worklist rows (k-1)b+1 .. kb, cut
\* at the end of the worklist: b rows in every batch that is not the last, 1
\* to b rows in the last; a run that gets through its loop has dispatched
\* ceil(n/b) batches whose concatenation is the worklist.
C5_BatchPartition ==
    LET n == Len(publications)
        b == batch_size
    IN  /\ Len(batches) <= CeilDiv(n, b)
        /\ \A k \in 1..Len(batches) :
              /\ Len(batches[k]) >= 1 /\ Len(batches[k]) <= b
              /\ k < CeilDiv(n, b) => Len(batches[k]) = b
              /\ \A m \in 1..Len(batches[k]) :
                    (k - 1) * b + m <= n /\ batches[k][m] = publications[(k - 1) * b + m]
        /\ run_pc = "done" =>
              /\ Len(batches) = CeilDiv(n, b)
              /\ Concat(batches) = publications

C5_Witness ==
    /\ run_pc = "done"
    /\ Len(publications) = 3
    /\ batch_size = 2
    /\ Len(batches) = 2
    /\ Len(batches[1]) = 2
    /\ Len(batches[2]) = 1

\* The run took the full-mode branch: run_diff is off, or the output file
\* was absent.
FullMode == ~(run_diff /\ out0.exists)

RowsWritten == Concat([k \in DOMAIN writes |-> writes[k].rows])

\* C6 as claimed: a write that truncates or writes a header is the write of
\* batch 1 of a full-mode run.
C6_OnlyFirstBatchOverwrites ==
    \A k \in DOMAIN writes :
        (writes[k].mode = "w" \/ writes[k].header) =>
            (FullMode /\ writes[k].batch = 1)

\* C6 as amended: a write truncates and writes a header exactly when it is
\* the first write of a full-mode run, whichever batch it saves; every other
\* write appends without a header; so the file holds what it held before (in
\* resume mode, or while nothing has been written) followed by every record
\* the run has written.
C6_OnlyFirstWriteOverwrites ==
    /\ \A k \in DOMAIN writes :
          /\ writes[k].mode \in {"w", "a"}
          /\ writes[k].header <=> writes[k].mode = "w"
          /\ writes[k].mode = "w" <=> (FullMode /\ k = 1)
    /\ run_pc # "idle" =>
          out_file.rows =
              (IF FullMode /\ writes # <<>> THEN <<>> ELSE out0.rows) \o RowsWritten

C6_Witness ==
    /\ FullMode
    /\ Len(writes) = 2
    /\ writes[1].batch = 2 /\ writes[1].mode = "w" /\ writes[1].header
    /\ writes[2].batch = 3 /\ writes[2].mode = "a" /\ ~writes[2].header

\* C7: a task is queued or running only while the main thread is inside the
\* with block of the batch the task belongs to; the tasks of later batches
\* have not been submitted; when the main thread saves, and at every write
\* it has made, no task is queued or running; the writes are in batch order.
C7_BatchesNeverOverlap ==
    /\ \A g \in DOMAIN tasks :
          /\ tasks[g].state \in {"pending", "running"} =>
                /\ g \in BatchRange(bi)
                /\ run_pc \in {"collect", "unwind"}
          /\ g > Min(bi + batch_size, Len(publications)) => tasks[g].state = "new"
    /\ run_pc \in {"save", "dispatch", "done", "aborted"} => Busy(tasks) = {}
    /\ \A k \in DOMAIN writes : writes[k].busy = {}
    /\ \A k, l \in DOMAIN writes : k < l => writes[k].batch < writes[l].batch

C7_Witness ==
    /\ run_pc = "collect"
    /\ BatchNo(bi) = 2
    /\ Running(tasks) # {}
    /\ Len(writes) = 1
    /\ writes[1].batch = 1
    /\ Len(writes[1].rows) = 2
    /\ num_workers = 2

\* The worklist indexes of batch number k, ascending.
RangeOfBatch(k) ==
    LET lo == (k - 1) * batch_size + 1
        hi == Min(k * batch_size, Len(publications))
    IN  [m \in 1..(hi - lo + 1) |-> lo + m - 1]

\* The worklist indexes of batch number k in the order their fetches ended.
CompletionOrderOfBatch(k) ==
    LET InBatch(g) == \E m \in DOMAIN RangeOfBatch(k) : RangeOfBatch(k)[m] = g
    IN  SelectSeq(completed, InBatch)

\* The records of the fetches listed in `order`, in that order.
RecordsOf(order) ==
    LET Ok(g) == tasks[g].result.t = "rec"
        sel   == SelectSeq(order, Ok)
    IN  [m \in DOMAIN sel |-> tasks[sel[m]].result]

\* C8 as claimed: the records of a batch are written in the order in which
\* their fetches completed.
C8_WrittenInCompletionOrder ==
    \A k \in DOMAIN writes :
        writes[k].rows = RecordsOf(CompletionOrderOfBatch(writes[k].batch))

\* C8 as amended: the records of a batch are written in the order of their
\* rows in the batch, whatever the order in which the fetches completed.
C8_WrittenInInputOrder ==
    \A k \in DOMAIN writes :
        writes[k].rows = RecordsOf(RangeOfBatch(writes[k].batch))

C8_Witness ==
    \E k \in DOMAIN writes :
        /\ Len(writes[k].rows) = 2
        /\ writes[k].rows[1] # writes[k].rows[2]
        /\ CompletionOrderOfBatch(writes[k].batch) = <<2, 1>>
        /\ writes[k].rows = <<tasks[1].result, tasks[2].result>>

\* The publication_id values present in an output file that can be read.
PresentIds(out) ==
    IF out.exists /\ out.readable /\ out.header = "metadata"
    THEN {v \in {JStr("")} \cup {JStr(i) : i \in Ids} :
            \E k \in DOMAIN out.rows : out.rows[k].publication_id = v}
    ELSE {}

\* C9 as claimed: in resume mode the worklist is the input rows whose
\* publication_id is not in the output file, in input order, and all input
\* rows when the output file is absent or cannot be read.
C9_ResumeSetAsClaimed ==
    (run_diff /\ input_exists /\ run_pc \notin {"idle", "start"}) =>
        LET NotPresent(row) == row.publication_id \notin PresentIds(out0)
        IN  publications = SelectSeq(input_rows, NotPresent)

\* C9 as amended: in resume mode with an output file present, the worklist
\* is the input rows whose publication_id is non-empty and not in the output
\* file (no identifier counts as present when the file cannot be read), in
\* input order; with the output file absent it is all input rows.
C9_ResumeSet ==
    (run_diff /\ input_exists /\ run_pc \notin {"idle", "start"}) =>
        LET Todo(row) == /\ row.publication_id # JStr("")
                         /\ row.publication_id \notin PresentIds(out0)
        IN  /\ out0.exists => publications = SelectSeq(input_rows, Todo)
            /\ ~out0.exists => publications = input_rows
            /\ run_pc # "no_input"

C9_Witness ==
    /\ run_diff
    /\ run_pc = "done"
    /\ input_rows = <<[publication_id |-> JStr("PB:1")], [publication_id |-> JStr("")],
                      [publication_id |-> JStr("PB:2")]>>
    /\ out0.rows = <<OutRecord("PB:1")>> /\ out0.header = "metadata"
    /\ publications = <<[publication_id |-> JStr("PB:2")]>>

-----------------------------------------------------------------------------
(* C10 *)

NonEmptyId(rec) == rec.publication_id.t = "str" /\ rec.publication_id.s # ""

\* C10: every record an extraction path emits (extract_publications,
\* extract_citing_publications, extract_publication_metadata) has a
\* non-empty publication_id; an entry whose id is missing or null is dropped.
C10_EmittedIdsNonEmpty ==
    (ex_pc = "done" /\ ex_out.t = "list")
        => \A i \in 1..Len(ex_out.xs) : NonEmptyId(ex_out.xs[i])

-----------------------------------------------------------------------------
(* C11 *)

\* C11: when its input file is missing, process_publication_metadata,
\* process_citations_for_publications and export_raw_publications each stop
\* with an error, having issued no HTTP request and having left every output
\* file as it was.
C11_MissingInputAborts ==
    /\ (run_pc # "idle" /\ ~input_exists) =>
          /\ run_pc \in {"start", "no_input"}
          /\ tasks = <<>> /\ completed = <<>>
          /\ writes = <<>> /\ out_file = out0
    /\ (ct_pc # "idle" /\ ~pubs_csv.exists) =>
          /\ ct_pc \in {"start", "no_input"}
          /\ ct_requests = 0
          /\ <<edges_csv, citing_pubs_csv>> = ct_out0
    /\ (xp_pc \notin {"idle", "ready"}
          /\ json_files[xp_calls[Len(xp_calls)].source_file].t = "absent") =>
          /\ xp_pc = "no_input"
          /\ raw_csv = raw_csv0

C11_Witness ==
    /\ ct_pc = "no_input"
    /\ ~pubs_csv.exists
    /\ ct_requests = 0
    /\ edges_csv = [exists |-> TRUE, rows |-> <<OldRow>>]
    /\ citing_pubs_csv = edges_csv

-----------------------------------------------------------------------------
(* C12, C13 *)

\* o[k] when o is an object holding k, and Absent otherwise.
Field(o, k) == IF o.t = "dict" /\ HasKey(o, k) THEN Lookup(o, k) ELSE Absent

\* The store and the node list of a document, Absent where it has none.
DocStore(doc) ==
    Field(Field(Field(Field(doc, Key("result")), Key("state")), Key("rigel")),
          Key("store"))

DocNodes(doc) ==
    Field(Field(Field(Field(doc, Key("result")), Key("data")),
                Key("publicationSearch")), Key("nodes"))

\* The entry carries the type discriminator.
TypedPublication(v) == Field(v, Key("__typename")) = JStr("Publication")

\* The positions of seq whose element satisfies Keep, as a set.
TypedAt(values) == {i \in 1..Len(values) : TypedPublication(values[i])}

\* The subsequence of seq at the positions in keep, in order.
RECURSIVE Pick(_, _, _)
Pick(seq, keep, i) ==
    IF i > Len(seq) THEN <<>>
    ELSE (IF i \in keep THEN <<seq[i]>> ELSE <<>>) \o Pick(seq, keep, i + 1)

\* The store without its entries that lack the discriminator.
TypedStore(store) ==
    IF store.t # "dict" THEN store
    ELSE JDict(Pick(store.ks, TypedAt(store.vs), 1),
               Pick(store.vs, TypedAt(store.vs), 1))

\* The node list without its nodes that lack the discriminator.
TypedNodes(nodes) ==
    IF nodes.t # "list" THEN nodes
    ELSE JList(Pick(nodes.xs, TypedAt(nodes.xs), 1))

HasUntyped(doc) ==
    \/ DocStore(doc).t = "dict" /\ TypedAt(DocStore(doc).vs) # 1..Len(DocStore(doc).vs)
    \/ DocNodes(doc).t = "list" /\ TypedAt(DocNodes(doc).xs) # 1..Len(DocNodes(doc).xs)

\* C12: an entry or node without __typename = "Publication" never yields a
\* record: in either shape and in either extractor, the records emitted are
\* those emitted once every untyped entry is taken out of the document.
C12_UntypedNeverEmitted ==
    (ex_pc = "done" /\ ex_doc \in ExtractDocs) =>
        /\ ex_op = "extract_publications" =>
              ex_out = extract_publications(
                          SearchDoc(TypedStore(DocStore(ex_doc)),
                                    TypedNodes(DocNodes(ex_doc))))
        /\ ex_op = "extract_citing_publications" =>
              ex_out = IF DocStore(ex_doc).t = "absent" THEN JList(<<>>)
                       ELSE extract_citing_publications(TypedStore(DocStore(ex_doc)))

\* The records of the accepted store entries, in store order.
ShapeARecords(doc) ==
    IF DocStore(doc).t = "dict" THEN StorePublications(DocStore(doc), 1).xs ELSE <<>>

\* The records of the nodes typed Publication, in list order.
ShapeBRecords(doc) ==
    IF DocNodes(doc).t = "list" THEN NodePublications(DocNodes(doc).xs, 1).xs ELSE <<>>

\* C13: extract_publications returns the shape-(a) records when there is at
\* least one, otherwise the shape-(b) records, and never an error: a document
\* matching neither shape gives the empty list.
C13_StoreFirstThenNodes ==
    (ex_pc = "done" /\ ex_op = "extract_publications") =>
        /\ ex_out.t = "list"
        /\ ex_out.xs = IF ShapeARecords(ex_doc) # <<>> THEN ShapeARecords(ex_doc)
                       ELSE ShapeBRecords(ex_doc)

-----------------------------------------------------------------------------
(* C14 *)

\* The items of a list, and nothing for what is not a list.
Items(v) == IF v.t = "list" THEN v.xs ELSE <<>>

\* The pointer is a publication reference publication(id:"<id>").
MatchesReference(ref) ==
    /\ ref.t = "text"
    /\ Len(ref.toks) = 6
    /\ ref.toks = PubKey(ref.toks[4])

\* The entries of all pages of the node, in page order and entry order.
RECURSIVE EntriesOf(_)
EntriesOf(pages) ==
    IF pages = <<>> THEN <<>>
    ELSE Items(Field(Head(pages), Key("list"))) \o EntriesOf(Tail(pages))

Pointer(entry) == Field(Field(entry, Key("sourcePublication")), Key("__ref__"))

\* One edge per entry whose pointer matches, in order, repeats kept.
RECURSIVE EdgesOf(_, _, _)
EdgesOf(entries, cited, topic) ==
    IF entries = <<>> THEN <<>>
    ELSE (IF MatchesReference(Pointer(Head(entries)))
          THEN <<[t |-> "edge", topic |-> topic, cited_publication_id |-> cited,
                  citing_publication_id |-> <<Pointer(Head(entries)).toks[4]>>]>>
          ELSE <<>>)
         \o EdgesOf(Tail(entries), cited, topic)

\* The node stored under the key that encodes the cited id, Absent if none.
CitedEntry(store, cited) ==
    IF store.t = "dict" /\ HasKey(store, PubKey(cited))
    THEN Lookup(store, PubKey(cited)) ELSE Absent

\* C14: extract_citation_edges emits one edge per entry, over all pages in
\* order, whose pointer matches the publication reference pattern, nothing
\* for an entry whose pointer is missing or does not match, each edge with
\* the given topic and cited id and the id embedded in the pointer, repeats
\* kept.
C14_OneEdgePerMatchingPointer ==
    (ex_pc = "done" /\ ex_op = "extract_citation_edges"
        /\ DocStore(ex_doc).t = "dict") =>
        /\ ex_out.t = "list"
        /\ ex_out.xs =
              EdgesOf(EntriesOf(Items(Field(Field(CitedEntry(DocStore(ex_doc), ex_arg.pub_id),
                                                  Key("incomingCitingPublicationsWithContext")),
                                            Key("__pagination__")))),
                      ex_arg.pub_id, ex_arg.topic)

-----------------------------------------------------------------------------
(* C15 *)

LastCall == xp_calls[Len(xp_calls)]

\* The rows of the file whose source_file is not S, as they stand in it.
OtherRows(rows, S) == SelectSeq(rows, LAMBDA r : r.source_file # <<S>>)

\* C15: after export_raw_publications ran for the JSON file S, the CSV holds
\* the rows it held before whose source_file is not S, unchanged and in their
\* order, followed by the rows extracted from S; and a second identical call
\* right after the first leaves the file as the first left it.
C15_ReplacesOnlyOwnRows ==
    (xp_pc = "done") =>
        /\ raw_csv.exists
        /\ raw_csv.rows =
              OtherRows(raw_csv0.rows, LastCall.source_file)
                \o [i \in 1..Len(LastCall.new_rows) |-> WriteRow(LastCall.new_rows[i])]
        /\ (Len(xp_calls) >= 2 /\ xp_calls[Len(xp_calls) - 1] = LastCall)
              => raw_csv = raw_csv0

=========================================================================
